---- MODULE Spec2Model ----
(***************************************************************************)
(* Sentiment Translator: the two App components of src/App.tsx, the        *)
(* provider functions of src/services/geminiService.ts and the emoji       *)
(* matcher of src/emoji.ts.                                                *)
(*                                                                         *)
(* src/App.tsx holds two App components.  The first (lines 9-161) analyses *)
(* the source text in real time behind a 500 ms debounce and translates in *)
(* two provider steps; the second (lines 175-407) translates in one        *)
(* provider step, asks for an emoji suggestion, lets the user append a     *)
(* suggested emoji and invalidates the results on a source edit.  Both     *)
(* keep their state in React hooks of the same names, so the model has one *)
(* set of variables and one specification per component: Spec for the      *)
(* second component, SpecV1 for the first.  Two further specifications     *)
(* call a function on its own, on every argument of a bounded set:         *)
(* SpecEmoji calls getEmojiForScore, SpecSentiment calls getSentiment.     *)
(*                                                                         *)
(* Conventions.                                                            *)
(*  - A string is a sequence of one-character strings; " " is the only     *)
(*    whitespace character.                                                *)
(*  - A score is an integer number of thousandths (0.2 is 200, -0.875 is   *)
(*    -875).  The code computes on the doubles nearest to the decimal      *)
(*    scores: where that decides a comparison, the distances               *)
(*    getEmojiForScore compares carry what double arithmetic adds to them  *)
(*    (DistanceResidue), and the threshold test of handleTranslate is      *)
(*    decided as the doubles decide it (RoundsAboveThreshold).             *)
(*  - A reading without a score field has the score NaN; a translation     *)
(*    answer without a translation field has the text undefinedText.       *)
(*  - A nullable value is the empty sequence when null or undefined and    *)
(*    <<v>> when it is v.                                                  *)
(*  - React applies the state updates a handler makes between two awaits   *)
(*    as one batch, so every synchronous stretch of a handler is one       *)
(*    action, the effects that run on the resulting render included.       *)
(*  - The provider (the Gemini API behind geminiService.ts) is the         *)
(*    environment: each of its answers is drawn from a small set, and its  *)
(*    texts echo the request (the translation of "a" is "A"), so that what *)
(*    is displayed can be traced to the request that produced it.          *)
(***************************************************************************)
EXTENDS Integers, Sequences, FiniteSets, TLC

VARIABLES
  sourceText,            \* useState sourceText
  translatedText,        \* useState translatedText
  sourceSentiment,       \* useState sourceSentiment: null or a Sentiment
  translatedSentiment,   \* useState translatedSentiment
  emojiSuggestion,       \* useState emojiSuggestion (second component)
  nuanceExplanation,     \* useState nuanceExplanation (second component)
  uiTranslations,        \* useState uiTranslations (second component)
  sourceStyle,           \* useState sourceStyle (second component)
  translatedStyle,       \* useState translatedStyle (second component)
  isLoading,             \* useState isLoading
  isSourceAnalyzing,     \* useState isSourceAnalyzing (first component)
  isTranslatedAnalyzing, \* useState isTranslatedAnalyzing (second component)
  error,                 \* useState error
  runs,                  \* handleTranslate invocations suspended at an await
  pending,               \* analyze*Sentiment invocations suspended at getSentiment
  calls,                 \* provider requests dispatched so far, per kind
  timers,                \* setTimeout handles of the debounce effect not yet fired or cleared
  now,                   \* the clock, in ms
  argScore,              \* the argument of a getEmojiForScore call made on its own
  closest,               \* the glyph that call returned, null until it returns
  argText,               \* the argument of a getSentiment call made on its own
  prompts,               \* the texts that call has sent to the provider
  resolved                \* what that call resolved to, null until it resolves

vars == <<sourceText, translatedText, sourceSentiment, translatedSentiment,
          emojiSuggestion, nuanceExplanation, uiTranslations, sourceStyle,
          translatedStyle, isLoading, isSourceAnalyzing, isTranslatedAnalyzing,
          error, runs, pending, calls, timers, now, argScore, closest,
          argText, prompts, resolved>>

\* The state of the application, and that of the getEmojiForScore and
\* getSentiment calls made outside it.
app == <<sourceText, translatedText, sourceSentiment, translatedSentiment,
         emojiSuggestion, nuanceExplanation, uiTranslations, sourceStyle,
         translatedStyle, isLoading, isSourceAnalyzing, isTranslatedAnalyzing,
         error, runs, pending, calls, timers, now>>
matcher == <<argScore, closest>>
analyzer == <<argText, prompts, resolved>>
standalone == <<argScore, closest, argText, prompts, resolved>>

\* A value that may be null or undefined is a sequence: empty when it is
\* absent, <<v>> when it is v.
null == <<>>
undefined == <<>>
Some(v) == <<v>>

-----------------------------------------------------------------------------
(* Bounds of the model.                                                    *)

\* Realtime getSentiment requests dispatched per text field over a behaviour
\* (each handleEmojiAdd and each expiry of the debounce timer dispatches one).
MaxCalls == 2
\* The clock stops after this many steps of 250 ms.
MaxTicks == 6

-----------------------------------------------------------------------------
(* Strings.                                                                *)

RECURSIVE TrimStart(_)
TrimStart(s) ==
  IF s # <<>> /\ Head(s) = " " THEN TrimStart(Tail(s)) ELSE s

RECURSIVE TrimEnd(_)
TrimEnd(s) ==
  IF s # <<>> /\ s[Len(s)] = " " THEN TrimEnd(SubSeq(s, 1, Len(s) - 1)) ELSE s

\* String.prototype.trim
Trim(s) == TrimEnd(TrimStart(s))

\* The texts the user types into the source box.
SourceTexts == { <<>>, <<" ">>, <<"a">>, <<"b">> }

\* The initial source text of both components: a fixed non-blank sentence.
InitialSourceText == <<"a">>

-----------------------------------------------------------------------------
(* src/emoji.ts                                                            *)

EMOJI_SENTIMENT_LIST ==
  << [emoji |-> "U+1F621", score |-> -875],
     [emoji |-> "U+1F62D", score |-> -803],
     [emoji |-> "U+1F629", score |-> -729],
     [emoji |-> "U+1F612", score |-> -583],
     [emoji |-> "U+1F615", score |-> -422],
     [emoji |-> "U+1F610", score |-> -106],
     [emoji |-> "U+1F914", score |-> 42],
     [emoji |-> "U+1F642", score |-> 312],
     [emoji |-> "U+1F60A", score |-> 598],
     [emoji |-> "U+1F604", score |-> 762],
     [emoji |-> "U+1F60D", score |-> 869],
     [emoji |-> "U+1F496", score |-> 958] >>

Abs(x) == IF x < 0 THEN -x ELSE x

\* The score of a reading that has no score field: reading.score is
\* undefined, arithmetic on it gives NaN, and every comparison with NaN is
\* false.
NaN == 1000000

\* Math.abs(entry - score) is computed in IEEE-754 doubles, and the doubles
\* nearest to the decimal scores are not the decimals.  Where two entries are
\* equally far from the score in thousandths, the two computed distances can
\* differ in their last bits; DistanceResidue is the computed distance minus
\* the decimal one, in units of 10^-18, for those pairs of entry and score.
\* For every other pair the thousandths decide every comparison and the
\* residue is left at 0.
DistanceResidue(entry, score) ==
  CASE <<entry, score>> = <<-875, -839>> -> 32  [] <<entry, score>> = <<-803, -839>> -> -79
    [] <<entry, score>> = <<-803, -766>> -> 33  [] <<entry, score>> = <<-729, -766>> -> 33
    [] <<entry, score>> = <<-729, -656>> -> -46 [] <<entry, score>> = <<-583, -656>> -> 65
    [] <<entry, score>> = <<-422, -264>> -> -26 [] <<entry, score>> = <<-106, -264>> -> 29
    [] <<entry, score>> = <<-106, -32>> -> -4   [] <<entry, score>> = <<42, -32>> -> 10
    [] <<entry, score>> = <<42, 177>> -> -19    [] <<entry, score>> = <<312, 177>> -> 9
    [] <<entry, score>> = <<312, 455>> -> 16    [] <<entry, score>> = <<598, 455>> -> -40
    [] <<entry, score>> = <<598, 680>> -> 73    [] <<entry, score>> = <<762, 680>> -> -38
    [] OTHER -> 0

\* Math.abs(entry - score) as computed: <<thousandths, residue>>, or NaN when
\* a score is not a number.
Distance(entry, score) ==
  IF entry = NaN \/ score = NaN THEN <<NaN, 0>>
  ELSE <<Abs(entry - score), DistanceResidue(entry, score)>>

\* d1 < d2 on computed distances.
Less(d1, d2) ==
  /\ d1[1] # NaN
  /\ d2[1] # NaN
  /\ d1[1] < d2[1] \/ (d1[1] = d2[1] /\ d1[2] < d2[2])

\* A faulty Reduce: the differences are compared without Math.abs.
RECURSIVE ReduceSigned(_, _, _, _)
ReduceSigned(list, i, prev, score) ==
  IF i > Len(list) THEN prev
  ELSE ReduceSigned(list, i + 1,
                    IF list[i].score - score < prev.score - score THEN list[i] ELSE prev,
                    score)

\* A faulty Reduce: the comparison is <=, so the later of two entries at
\* equal distance is kept.
RECURSIVE ReduceKeepsLater(_, _, _, _)
ReduceKeepsLater(list, i, prev, score) ==
  IF i > Len(list) THEN prev
  ELSE ReduceKeepsLater(list, i + 1,
                        IF ~Less(Distance(prev.score, score), Distance(list[i].score, score))
                          THEN list[i] ELSE prev,
                        score)

\* Array.prototype.reduce without an initial value: the accumulator starts as
\* the first element and the callback runs on the others, left to right.
\* The callback's result is computed once and bound, as a value, to the
\* accumulator of the next step.
RECURSIVE Reduce(_, _, _, _)
Reduce(list, i, prev, score) ==
  IF i > Len(list) THEN prev
  ELSE CHOOSE result \in
         { Reduce(list, i + 1, next, score) :
             next \in { IF Less(Distance(list[i].score, score), Distance(prev.score, score))
                          THEN list[i] ELSE prev } } : TRUE

getEmojiForScore(score) ==
  IF Len(EMOJI_SENTIMENT_LIST) = 0 THEN "U+1F914"
  ELSE Reduce(EMOJI_SENTIMENT_LIST, 2, EMOJI_SENTIMENT_LIST[1], score).emoji

-----------------------------------------------------------------------------
(* The provider: what the Gemini API answers to the requests of            *)
(* src/services/geminiService.ts.                                          *)

Weight(c) ==
  CASE c = "a" -> 300  [] c = "A" -> 300
    [] c = "b" -> -500 [] c = "B" -> -500
    [] c = "x" -> 200  [] c = "y" -> -200
    [] OTHER -> 0

RECURSIVE SumWeights(_)
SumWeights(s) == IF s = <<>> THEN 0 ELSE Weight(Head(s)) + SumWeights(Tail(s))

\* The score the provider gives a text: a function of the text, within [-1, 1].
ScoreOf(text) ==
  LET w == SumWeights(text)
  IN  IF w > 1000 THEN 1000 ELSE IF w < -1000 THEN -1000 ELSE w

\* The provider's answer to a sentiment request that follows the response
\* schema (lines 10-19): an object with a score and nothing else.
SentimentAnswer(text) ==
  [score |-> ScoreOf(text), intimacy |-> undefined, formality |-> undefined]

\* What may come back from the provider for a sentiment request: "fail" is a
\* rejected request or a text that is not JSON, "ok" the text of
\* SentimentAnswer, "null" the JSON text null and "noScore" the JSON text {}
\* (JSON.parse checks nothing, line 42).
SentimentAnswers == { "fail", "ok", "null", "noScore" }

Upper(c) == CASE c = "a" -> "A" [] c = "b" -> "B" [] OTHER -> c

\* The provider's translation of a text: letter by letter; the translation
\* of a text that ends in "b" comes back with a trailing space, as generated
\* text may.
Translation(text) ==
  LET t == [i \in 1..Len(text) |-> Upper(text[i])]
  IN  IF text # <<>> /\ text[Len(text)] = "b" THEN t \o <<" ">> ELSE t

\* The scores the provider may give the source side of a translation.
SourceScores == { -100, 300 }

\* The pairs of scores (source, translation) the provider may give the two
\* sides of a translation: 0.2 apart with a computed difference of 0.2, 0.2
\* apart with a computed difference of 0.20000000000000007, 0.2 apart with a
\* computed difference of 0.20000000000000004, just over 0.2 apart, 0.4
\* apart with the translation the more positive, and equal.
ScorePairs ==
  { <<-100, 100>>, <<800, 600>>, <<141, 341>>, <<300, 99>>, <<-100, 300>>, <<300, 300>> }

\* The nuance note the provider gives a text: one that echoes the text when
\* the text holds a particle (here the letter "a"), none otherwise.
NuanceOf(text) ==
  IF \E i \in 1..Len(text) : text[i] = "a" THEN Some(<<"n">> \o text) ELSE undefined

\* The translation field of an answer that has none: undefined, which is
\* not a string.
undefinedText == << "undefined" >>

\* if (text), on a text or undefinedText.
Truthy(text) == text # <<>> /\ text # undefinedText

\* The provider's answers to a getTranslationAndSentiment request: a failure
\* (network, or text that is not JSON), or a parsed object.  kind "ok" has
\* every required field; "noTranslation" lacks translation, "noSource" lacks
\* sourceSentiment and "noTranslated" lacks translatedSentiment (JSON.parse
\* checks nothing, lines 134-139).
TranslationAnswers(text) ==
  { [kind |-> "noTranslation", translation |-> undefinedText, sourceScore |-> -100,
     translatedScore |-> 300, nuance |-> NuanceOf(text)] }
  \cup
  { [kind |-> "fail", translation |-> <<>>, sourceScore |-> 0,
     translatedScore |-> 0, nuance |-> undefined] }
  \cup
  { [kind |-> "ok", translation |-> Translation(text), sourceScore |-> p[1],
     translatedScore |-> p[2], nuance |-> NuanceOf(text)] : p \in ScorePairs }
  \cup
  { [kind |-> k, translation |-> Translation(text), sourceScore |-> 300,
     translatedScore |-> 300, nuance |-> undefined] :
      k \in {"noSource", "noTranslated"} }

\* A sentiment reading inside the provider's answer to a translation request.
TranslationReading(score) ==
  [score |-> score, intimacy |-> undefined, formality |-> undefined]

\* The provider's successful answer to a getEmojiSuggestions request.
SuggestionAnswer(text) ==
  [explanation |-> <<"e">> \o text, emojis |-> <<"x", "y">>]

-----------------------------------------------------------------------------
(* Helpers shared by the two components.                                   *)

\* A faulty WithEmoji: every reading gets the glyph of the fallback score.
WithEmojiOfZero(reading) ==
  [score |-> reading.score, intimacy |-> reading.intimacy,
   formality |-> reading.formality, emoji |-> getEmojiForScore(0)]

\* { ...reading, emoji: getEmojiForScore(reading.score) }
WithEmoji(reading) ==
  [score |-> reading.score, intimacy |-> reading.intimacy,
   formality |-> reading.formality, emoji |-> getEmojiForScore(reading.score)]

\* getSentiment's result once the provider has answered: the parsed answer
\* (line 42), which is null, or Some(object), or { score: 0 } when the
\* request failed (lines 43-47).
getSentimentResult(text, a) ==
  CASE a = "ok" -> Some(SentimentAnswer(text))
    [] a = "null" -> null
    [] a = "noScore" ->
         Some([score |-> NaN, intimacy |-> undefined, formality |-> undefined])
    [] OTHER -> Some([score |-> 0, intimacy |-> undefined, formality |-> undefined])

ErrorMessage == "An error occurred. Please check your API key and try again."

\* A faulty TranslateDisabled: the button ignores the loading flag.
TranslateDisabledIgnoresLoading == Trim(sourceText) = <<>>

\* The Translate button's disabled attribute.
TranslateDisabled == isLoading \/ Trim(sourceText) = <<>>

\* Remove the i-th element of a sequence.
RemoveAt(seq, i) == SubSeq(seq, 1, i - 1) \o SubSeq(seq, i + 1, Len(seq))

noTimer == <<timers, now, isSourceAnalyzing>>

-----------------------------------------------------------------------------
(* The second App component (src/App.tsx lines 175-407).                   *)

Init ==
  /\ sourceText = InitialSourceText
  /\ translatedText = <<>>
  /\ sourceSentiment = null
  /\ translatedSentiment = null
  /\ emojiSuggestion = null
  /\ nuanceExplanation = null
  /\ uiTranslations = null
  /\ sourceStyle = null
  /\ translatedStyle = null
  /\ isLoading = FALSE
  /\ isSourceAnalyzing = FALSE
  /\ isTranslatedAnalyzing = FALSE
  /\ error = null
  /\ runs = <<>>
  /\ pending = {}
  /\ calls = [source |-> 0, translated |-> 0]
  /\ timers = {}
  /\ now = 0
  /\ argScore = 0
  /\ closest = null
  /\ argText = <<>>
  /\ prompts = <<>>
  /\ resolved = null

\* analyzeTranslatedSentiment(text) up to its await (lines 193-200).
analyzeTranslatedSentiment(text) ==
  IF Trim(text) = <<>>
    THEN /\ translatedSentiment' = null
         /\ UNCHANGED <<isTranslatedAnalyzing, pending, calls>>
    ELSE /\ isTranslatedAnalyzing' = TRUE
         /\ calls' = [calls EXCEPT !.translated = @ + 1]
         /\ pending' = pending \cup
              {[field |-> "translated", id |-> calls.translated + 1, text |-> text]}
         /\ UNCHANGED translatedSentiment

\* analyzeTranslatedSentiment after its await (lines 200-206): the provider
\* has answered request r with a.  Destructuring a null result throws, and
\* the catch block stores the fallback reading (lines 202-204).
TranslatedSentimentResponse(r, a) ==
  /\ r \in pending
  /\ r.field = "translated"
  /\ a \in SentimentAnswers
  /\ pending' = pending \ {r}
  /\ LET result == getSentimentResult(r.text, a)
     IN  translatedSentiment' =
           IF result = null
             THEN Some([score |-> 0, intimacy |-> Some(50), formality |-> Some(50),
                        emoji |-> getEmojiForScore(0)])
             ELSE Some(WithEmoji(result[1]))
  /\ isTranslatedAnalyzing' = FALSE
  /\ UNCHANGED <<sourceText, translatedText, sourceSentiment, emojiSuggestion,
                 nuanceExplanation, uiTranslations, sourceStyle, translatedStyle,
                 isLoading, error, runs, calls>>
  /\ UNCHANGED noTimer
  /\ UNCHANGED standalone

\* A faulty handleTranslate: the suggestion of the previous run is not
\* cleared.
handleTranslateKeepsSuggestion ==
  /\ ~TranslateDisabled
  /\ Trim(sourceText) # <<>>
  /\ isLoading' = TRUE
  /\ error' = null
  /\ translatedText' = <<>>
  /\ translatedSentiment' = null
  /\ nuanceExplanation' = null
  /\ sourceSentiment' = null
  /\ uiTranslations' = null
  /\ sourceStyle' = null
  /\ translatedStyle' = null
  /\ runs' = Append(runs, [pc |-> "getTranslationAndSentiment", text |-> sourceText,
                           translation |-> <<>>])
  /\ UNCHANGED <<sourceText, emojiSuggestion, isTranslatedAnalyzing, pending, calls>>
  /\ UNCHANGED noTimer
  /\ UNCHANGED standalone

\* translate(): a click on the Translate button (lines 339-342) runs
\* handleTranslate up to its first await (lines 209-233).
handleTranslate ==
  /\ ~TranslateDisabled
  /\ Trim(sourceText) # <<>>
  /\ isLoading' = TRUE
  /\ error' = null
  /\ translatedText' = <<>>
  /\ translatedSentiment' = null
  /\ emojiSuggestion' = null
  /\ nuanceExplanation' = null
  /\ sourceSentiment' = null
  /\ uiTranslations' = null
  /\ sourceStyle' = null
  /\ translatedStyle' = null
  /\ runs' = Append(runs, [pc |-> "getTranslationAndSentiment", text |-> sourceText,
                           translation |-> <<>>])
  /\ UNCHANGED <<sourceText, isTranslatedAnalyzing, pending, calls>>
  /\ UNCHANGED noTimer
  /\ UNCHANGED standalone

\* A faulty NeedsSuggestion: the comparison is not strict.
NeedsSuggestionAtThreshold(sourceScore, translatedScore) ==
  Abs(sourceScore - translatedScore) >= 200

\* The lesser scores, in thousandths, of the pairs of scores 0.2 apart whose
\* difference as computed in IEEE-754 doubles is greater than 0.2: it is
\* 0.20000000000000004 for the lesser scores -406..-404, -343..-341,
\* 141..143 and 204..206, and 0.20000000000000007 for the others of the set.
\* For every other pair 0.2 apart it is 0.2, 0.19999999999999998 or
\* 0.19999999999999996.
RoundsAboveThreshold ==
  (-937..-888) \cup (-812..-763) \cup (-687..-669) \cup (-562..-544)
    \cup (-406..-404) \cup (-343..-341) \cup (141..143) \cup (204..206)
    \cup (344..362) \cup (469..487) \cup (563..612) \cup (688..737)

\* Math.abs(srcSentiment.score - transSentiment.score) > 0.2, on doubles
\* (lines 253-254).
NeedsSuggestion(sourceScore, translatedScore) ==
  LET difference == Abs(sourceScore - translatedScore)
      lesser == IF sourceScore < translatedScore THEN sourceScore ELSE translatedScore
  IN  \/ difference > 200
      \/ difference = 200 /\ lesser \in RoundsAboveThreshold

\* handleTranslate from the answer to getTranslationAndSentiment to its next
\* await or its end (lines 233-264); i is the run, a the provider's answer.
TranslationResponse(i, a) ==
  /\ i \in 1..Len(runs)
  /\ runs[i].pc = "getTranslationAndSentiment"
  /\ a \in TranslationAnswers(runs[i].text)
  /\ CASE a.kind \in {"ok", "noTranslation"} ->
            /\ sourceSentiment' = Some(WithEmoji(TranslationReading(a.sourceScore)))
            \* setTranslatedText(undefined) when the answer has no translation
            /\ translatedText' = a.translation
            /\ translatedSentiment' = Some(WithEmoji(TranslationReading(a.translatedScore)))
            \* the answer has none of these three fields (schema, lines 66-91)
            /\ uiTranslations' = undefined
            /\ sourceStyle' = undefined
            /\ translatedStyle' = undefined
            /\ nuanceExplanation' = IF a.nuance # undefined THEN a.nuance ELSE nuanceExplanation
            /\ IF NeedsSuggestion(a.sourceScore, a.translatedScore)
                 THEN /\ runs' = [runs EXCEPT ![i] = [pc |-> "getEmojiSuggestions",
                                     text |-> runs[i].text, translation |-> a.translation]]
                      /\ UNCHANGED <<isLoading, error>>
                 ELSE /\ runs' = RemoveAt(runs, i)
                      /\ isLoading' = FALSE
                      /\ UNCHANGED error
       [] a.kind = "noSource" ->
            \* srcSentiment.score throws before any setter is called (line 237)
            /\ error' = Some(ErrorMessage)
            /\ isLoading' = FALSE
            /\ runs' = RemoveAt(runs, i)
            /\ UNCHANGED <<sourceSentiment, translatedText, translatedSentiment,
                           uiTranslations, sourceStyle, translatedStyle, nuanceExplanation>>
       [] a.kind = "noTranslated" ->
            \* transSentiment.score throws after two setters were called (line 242)
            /\ sourceSentiment' = Some(WithEmoji(TranslationReading(a.sourceScore)))
            /\ translatedText' = a.translation
            /\ error' = Some(ErrorMessage)
            /\ isLoading' = FALSE
            /\ runs' = RemoveAt(runs, i)
            /\ UNCHANGED <<translatedSentiment, uiTranslations, sourceStyle,
                           translatedStyle, nuanceExplanation>>
       [] OTHER ->
            \* getTranslationAndSentiment threw (lines 141-144, 259-264)
            /\ error' = Some(ErrorMessage)
            /\ isLoading' = FALSE
            /\ runs' = RemoveAt(runs, i)
            /\ UNCHANGED <<sourceSentiment, translatedText, translatedSentiment,
                           uiTranslations, sourceStyle, translatedStyle, nuanceExplanation>>
  /\ UNCHANGED <<sourceText, emojiSuggestion, isTranslatedAnalyzing, pending, calls>>
  /\ UNCHANGED noTimer
  /\ UNCHANGED standalone

\* A faulty SuggestionResponse: the loading flag is cleared at the end of
\* the try block instead of in a finally block, so a failed suggestion
\* request leaves it set.
SuggestionResponseKeepsLoading(i, ok) ==
  /\ i \in 1..Len(runs)
  /\ runs[i].pc = "getEmojiSuggestions"
  /\ IF ok
       THEN /\ emojiSuggestion' = Some(SuggestionAnswer(runs[i].text))
            /\ isLoading' = FALSE
            /\ UNCHANGED error
       ELSE /\ error' = Some(ErrorMessage)
            /\ UNCHANGED <<emojiSuggestion, isLoading>>
  /\ runs' = RemoveAt(runs, i)
  /\ UNCHANGED <<sourceText, translatedText, sourceSentiment, translatedSentiment,
                 nuanceExplanation, uiTranslations, sourceStyle, translatedStyle,
                 isTranslatedAnalyzing, pending, calls>>
  /\ UNCHANGED noTimer
  /\ UNCHANGED standalone

\* handleTranslate from the answer to getEmojiSuggestions to its end
\* (lines 255-264).
SuggestionResponse(i, ok) ==
  /\ i \in 1..Len(runs)
  /\ runs[i].pc = "getEmojiSuggestions"
  /\ IF ok
       THEN /\ emojiSuggestion' = Some(SuggestionAnswer(runs[i].text))
            /\ UNCHANGED error
       ELSE /\ error' = Some(ErrorMessage)
            /\ UNCHANGED emojiSuggestion
  /\ isLoading' = FALSE
  /\ runs' = RemoveAt(runs, i)
  /\ UNCHANGED <<sourceText, translatedText, sourceSentiment, translatedSentiment,
                 nuanceExplanation, uiTranslations, sourceStyle, translatedStyle,
                 isTranslatedAnalyzing, pending, calls>>
  /\ UNCHANGED noTimer
  /\ UNCHANGED standalone

\* A faulty handleEmojiAdd: the displayed translation is not trimmed before
\* the glyph is joined to it.
handleEmojiAddUntrimmed(emoji) ==
  /\ emojiSuggestion # null
  /\ ~isLoading
  /\ \E k \in 1..Len(emojiSuggestion[1].emojis) : emojiSuggestion[1].emojis[k] = emoji
  /\ IF translatedText = undefinedText
       THEN UNCHANGED <<translatedText, translatedSentiment, isTranslatedAnalyzing,
                        pending, calls>>
       ELSE /\ calls.translated < MaxCalls
            /\ LET newText == Trim(translatedText \o <<" ">> \o <<emoji>>)
               IN  /\ translatedText' = newText
                   /\ analyzeTranslatedSentiment(newText)
  /\ UNCHANGED <<sourceText, sourceSentiment, emojiSuggestion, nuanceExplanation,
                 uiTranslations, sourceStyle, translatedStyle, isLoading, error, runs>>
  /\ UNCHANGED noTimer
  /\ UNCHANGED standalone

\* appendSuggestedGlyph(emoji): a click in the EmojiSuggestionBox, which is
\* rendered while emojiSuggestion && !isLoading (lines 382-387), runs
\* handleEmojiAdd (lines 267-271).
handleEmojiAdd(emoji) ==
  /\ emojiSuggestion # null
  /\ ~isLoading
  /\ \E k \in 1..Len(emojiSuggestion[1].emojis) : emojiSuggestion[1].emojis[k] = emoji
  /\ IF translatedText = undefinedText
       THEN \* translatedText.trim() throws a TypeError before any setter is
            \* called (line 268)
            UNCHANGED <<translatedText, translatedSentiment, isTranslatedAnalyzing,
                        pending, calls>>
       ELSE /\ calls.translated < MaxCalls
            /\ LET newText == Trim(Trim(translatedText) \o <<" ">> \o <<emoji>>)
               IN  /\ translatedText' = newText
                   /\ analyzeTranslatedSentiment(newText)
  /\ UNCHANGED <<sourceText, sourceSentiment, emojiSuggestion, nuanceExplanation,
                 uiTranslations, sourceStyle, translatedStyle, isLoading, error, runs>>
  /\ UNCHANGED noTimer
  /\ UNCHANGED standalone

\* A faulty ClearDerivedState: the suggestion is not cleared.
ClearDerivedStateKeepsSuggestion ==
  /\ translatedText' = <<>>
  /\ sourceSentiment' = null
  /\ translatedSentiment' = null
  /\ nuanceExplanation' = null
  /\ uiTranslations' = null
  /\ error' = null
  /\ sourceStyle' = null
  /\ translatedStyle' = null
  /\ UNCHANGED emojiSuggestion

\* "Clear all derived state" (lines 279-287).
ClearDerivedState ==
  /\ translatedText' = <<>>
  /\ sourceSentiment' = null
  /\ translatedSentiment' = null
  /\ emojiSuggestion' = null
  /\ nuanceExplanation' = null
  /\ uiTranslations' = null
  /\ error' = null
  /\ sourceStyle' = null
  /\ translatedStyle' = null

\* onTextChanged(newText): handleSourceTextChange (lines 273-289).
handleSourceTextChange(newText) ==
  /\ newText # sourceText
  /\ sourceText' = newText
  /\ IF Truthy(translatedText)
       THEN ClearDerivedState
       ELSE UNCHANGED <<translatedText, sourceSentiment, translatedSentiment,
                        emojiSuggestion, nuanceExplanation, uiTranslations, error,
                        sourceStyle, translatedStyle>>
  /\ UNCHANGED <<isLoading, isTranslatedAnalyzing, runs, pending, calls>>
  /\ UNCHANGED noTimer
  /\ UNCHANGED standalone

Next ==
  \/ handleTranslate
  \/ \E i \in 1..Len(runs) : \E a \in TranslationAnswers(runs[i].text) : TranslationResponse(i, a)
  \/ \E i \in 1..Len(runs) : \E ok \in BOOLEAN : SuggestionResponse(i, ok)
  \/ \E emoji \in {"x", "y"} : handleEmojiAdd(emoji)
  \/ \E r \in pending : \E a \in SentimentAnswers : TranslatedSentimentResponse(r, a)
  \/ \E newText \in SourceTexts : handleSourceTextChange(newText)

Spec == Init /\ [][Next]_vars

\* The second component with a provider that answers, or fails, every
\* request handleTranslate awaits.
FairSpec ==
  /\ Spec
  /\ WF_vars(\E i \in 1..Len(runs) : \E a \in TranslationAnswers(runs[i].text) :
               TranslationResponse(i, a))
  /\ WF_vars(\E i \in 1..Len(runs) : \E ok \in BOOLEAN : SuggestionResponse(i, ok))

-----------------------------------------------------------------------------
(* The first App component (src/App.tsx lines 9-161).                      *)

\* The delay of the debounce timer (line 45), in ms.
DebounceDelay == 500

\* The amounts by which the clock advances in one step.
TickSteps == { 250 }

\* A faulty Cleanup: the previous timer is not cleared.
CleanupKeepsTimer(ts) == ts

\* The cleanup of the debounce effect (lines 47-49): clearTimeout(handler)
\* clears the timer the previous run of the effect had set.
Cleanup(ts) == {}

\* A faulty DebounceEffect: a timer is set during a translation too.
DebounceEffectIgnoresLoading(text, loading) ==
  timers' = Cleanup(timers) \cup {[text |-> text, setAt |-> now]}

\* The debounce effect (lines 39-50) as it runs after a render in which
\* sourceText or isLoading changed: the previous run's cleanup, then a new
\* timer unless a translation is in progress.
DebounceEffect(text, loading) ==
  timers' = Cleanup(timers) \cup
            (IF loading THEN {} ELSE {[text |-> text, setAt |-> now]})

InitV1 ==
  /\ sourceText = InitialSourceText
  /\ translatedText = <<>>
  /\ sourceSentiment = null
  /\ translatedSentiment = null
  /\ emojiSuggestion = null
  /\ nuanceExplanation = null
  /\ uiTranslations = null
  /\ sourceStyle = null
  /\ translatedStyle = null
  /\ isLoading = FALSE
  /\ isSourceAnalyzing = FALSE
  /\ isTranslatedAnalyzing = FALSE
  /\ error = null
  /\ runs = <<>>
  /\ pending = {}
  /\ calls = [source |-> 0, translated |-> 0]
  /\ timers = {[text |-> InitialSourceText, setAt |-> 0]}
  /\ now = 0
  /\ argScore = 0
  /\ closest = null
  /\ argText = <<>>
  /\ prompts = <<>>
  /\ resolved = null

unusedV1 == <<emojiSuggestion, nuanceExplanation, uiTranslations, sourceStyle,
              translatedStyle, isTranslatedAnalyzing>>

\* A Sentiment of the first component: { score, emoji }.
SentimentV1(score) ==
  [score |-> score, intimacy |-> undefined, formality |-> undefined,
   emoji |-> getEmojiForScore(score)]

\* Time passes; a timer fires when its delay has elapsed, never later.
Tick(d) ==
  /\ now + d <= MaxTicks * d
  /\ \A t \in timers : now + d <= t.setAt + DebounceDelay
  /\ now' = now + d
  /\ UNCHANGED <<sourceText, translatedText, sourceSentiment, translatedSentiment,
                 isLoading, isSourceAnalyzing, error, runs, pending, calls, timers>>
  /\ UNCHANGED unusedV1
  /\ UNCHANGED standalone

\* onTextChanged(newText): the source box's onChange (line 142) and the
\* debounce effect of the render it causes.
setSourceText(newText) ==
  /\ newText # sourceText
  /\ sourceText' = newText
  /\ DebounceEffect(newText, isLoading)
  /\ UNCHANGED <<translatedText, sourceSentiment, translatedSentiment, isLoading,
                 isSourceAnalyzing, error, runs, pending, calls, now>>
  /\ UNCHANGED unusedV1
  /\ UNCHANGED standalone

\* The debounce timer t expires (line 44) and analyzeSourceSentiment runs up
\* to its await (lines 21-28).
TimerFires(t) ==
  /\ t \in timers
  /\ now = t.setAt + DebounceDelay
  /\ timers' = timers \ {t}
  /\ IF Trim(t.text) = <<>>
       THEN /\ sourceSentiment' = null
            /\ UNCHANGED <<isSourceAnalyzing, pending, calls>>
       ELSE /\ calls.source < MaxCalls
            /\ isSourceAnalyzing' = TRUE
            /\ calls' = [calls EXCEPT !.source = @ + 1]
            /\ pending' = pending \cup
                 {[field |-> "source", id |-> calls.source + 1, text |-> t.text]}
            /\ UNCHANGED sourceSentiment
  /\ UNCHANGED <<sourceText, translatedText, translatedSentiment, isLoading,
                 error, runs, now>>
  /\ UNCHANGED unusedV1
  /\ UNCHANGED standalone

\* analyzeSourceSentiment after its await (lines 28-35): the provider has
\* answered request r with a.  Destructuring a null result throws, and the
\* catch block stores the reading of score 0 (lines 30-32).
SourceSentimentResponse(r, a) ==
  /\ r \in pending
  /\ r.field = "source"
  /\ a \in SentimentAnswers
  /\ pending' = pending \ {r}
  /\ LET result == getSentimentResult(r.text, a)
     IN  sourceSentiment' =
           IF result = null THEN Some(SentimentV1(0))
           ELSE Some(SentimentV1(result[1].score))
  /\ isSourceAnalyzing' = FALSE
  /\ UNCHANGED <<sourceText, translatedText, translatedSentiment, isLoading,
                 error, runs, calls, timers, now>>
  /\ UNCHANGED unusedV1
  /\ UNCHANGED standalone

\* translate(): a click on the Translate button (lines 116-118) runs
\* handleTranslate up to its first await (lines 53-62); the render that
\* follows runs the debounce effect with isLoading set.
handleTranslateV1 ==
  /\ ~TranslateDisabled
  /\ Trim(sourceText) # <<>>
  /\ isLoading' = TRUE
  /\ error' = null
  /\ translatedText' = <<>>
  /\ translatedSentiment' = null
  /\ runs' = Append(runs, [pc |-> "getTranslationAndSentiment", text |-> sourceText,
                           translation |-> <<>>])
  /\ DebounceEffect(sourceText, TRUE)
  /\ UNCHANGED <<sourceText, sourceSentiment, isSourceAnalyzing, pending, calls, now>>
  /\ UNCHANGED unusedV1
  /\ UNCHANGED standalone

\* The provider's answers to the first component's translation request:
\* { translation, sentiment } (line 62), or a failure.
TranslationAnswersV1(text) ==
  { [kind |-> "fail", translation |-> <<>>, score |-> 0] }
  \cup
  { [kind |-> "ok", translation |-> Translation(text), score |-> s] : s \in SourceScores }

\* handleTranslate from the answer to getTranslationAndSentiment to the
\* await of getSentiment(translation), or to its end (lines 62-82).
TranslationResponseV1(i, a) ==
  /\ i \in 1..Len(runs)
  /\ runs[i].pc = "getTranslationAndSentiment"
  /\ a \in TranslationAnswersV1(runs[i].text)
  /\ IF a.kind = "ok"
       THEN /\ sourceSentiment' = Some(SentimentV1(a.score))
            /\ translatedText' = a.translation
            /\ runs' = [runs EXCEPT ![i] = [pc |-> "getSentiment", text |-> runs[i].text,
                                             translation |-> a.translation]]
            /\ UNCHANGED <<error, isLoading, timers>>
       ELSE /\ error' = Some(ErrorMessage)
            /\ isLoading' = FALSE
            /\ runs' = RemoveAt(runs, i)
            /\ DebounceEffect(sourceText, FALSE)
            /\ UNCHANGED <<sourceSentiment, translatedText>>
  /\ UNCHANGED <<sourceText, translatedSentiment, isSourceAnalyzing, pending, calls, now>>
  /\ UNCHANGED unusedV1
  /\ UNCHANGED standalone

\* handleTranslate from the answer to getSentiment(translation) to its end
\* (lines 71-82), and the debounce effect of the render with isLoading
\* cleared.  Destructuring a null result throws into handleTranslate's catch
\* block (lines 77-79).
TranslationSentimentResponseV1(i, a) ==
  /\ i \in 1..Len(runs)
  /\ runs[i].pc = "getSentiment"
  /\ a \in SentimentAnswers
  /\ LET result == getSentimentResult(runs[i].translation, a)
     IN  IF result = null
           THEN /\ error' = Some(ErrorMessage)
                /\ UNCHANGED translatedSentiment
           ELSE /\ translatedSentiment' = Some(SentimentV1(result[1].score))
                /\ UNCHANGED error
  /\ isLoading' = FALSE
  /\ runs' = RemoveAt(runs, i)
  /\ DebounceEffect(sourceText, FALSE)
  /\ UNCHANGED <<sourceText, translatedText, sourceSentiment, isSourceAnalyzing,
                 pending, calls, now>>
  /\ UNCHANGED unusedV1
  /\ UNCHANGED standalone

NextV1 ==
  \/ \E d \in TickSteps : Tick(d)
  \/ \E newText \in SourceTexts : setSourceText(newText)
  \/ \E t \in timers : TimerFires(t)
  \/ \E r \in pending : \E a \in SentimentAnswers : SourceSentimentResponse(r, a)
  \/ handleTranslateV1
  \/ \E i \in 1..Len(runs) : \E a \in TranslationAnswersV1(runs[i].text) : TranslationResponseV1(i, a)
  \/ \E i \in 1..Len(runs) : \E a \in SentimentAnswers : TranslationSentimentResponseV1(i, a)

SpecV1 == InitV1 /\ [][NextV1]_vars

\* The first component with a provider that answers, or fails, every
\* request handleTranslate awaits.
FairSpecV1 ==
  /\ SpecV1
  /\ WF_vars(\E i \in 1..Len(runs) : \E a \in TranslationAnswersV1(runs[i].text) :
               TranslationResponseV1(i, a))
  /\ WF_vars(\E i \in 1..Len(runs) : \E a \in SentimentAnswers :
               TranslationSentimentResponseV1(i, a))

-----------------------------------------------------------------------------
(* getEmojiForScore called on its own (src/emoji.ts), on every score of    *)
(* [-1, 1] that is a whole number of thousandths.                          *)

\* 1.0: a sentiment score lies between -1.0 and 1.0.
MaxScore == 1000

Scores == -MaxScore..MaxScore

InitEmoji ==
  /\ argScore \in Scores
  /\ closest = null
  /\ argText = <<>>
  /\ prompts = <<>>
  /\ resolved = null
  /\ sourceText = InitialSourceText
  /\ translatedText = <<>>
  /\ sourceSentiment = null
  /\ translatedSentiment = null
  /\ emojiSuggestion = null
  /\ nuanceExplanation = null
  /\ uiTranslations = null
  /\ sourceStyle = null
  /\ translatedStyle = null
  /\ isLoading = FALSE
  /\ isSourceAnalyzing = FALSE
  /\ isTranslatedAnalyzing = FALSE
  /\ error = null
  /\ runs = <<>>
  /\ pending = {}
  /\ calls = [source |-> 0, translated |-> 0]
  /\ timers = {}
  /\ now = 0

\* The call getEmojiForScore(argScore) returns.
callGetEmojiForScore ==
  /\ closest = null
  /\ closest' = Some(getEmojiForScore(argScore))
  /\ UNCHANGED argScore
  /\ UNCHANGED app
  /\ UNCHANGED analyzer

NextEmoji == callGetEmojiForScore

SpecEmoji == InitEmoji /\ [][NextEmoji]_vars

-----------------------------------------------------------------------------
(* getSentiment called on its own (src/services/geminiService.ts 26-48),   *)
(* on every text of at most MaxTextLen characters.                         *)

\* The longest text passed to the call.
MaxTextLen == 4

Characters == {" ", "a", "b"}

Texts == UNION { [1..n -> Characters] : n \in 0..MaxTextLen }

InitSentiment ==
  /\ argText \in Texts
  /\ prompts = <<>>
  /\ resolved = null
  /\ argScore = 0
  /\ closest = null
  /\ sourceText = InitialSourceText
  /\ translatedText = <<>>
  /\ sourceSentiment = null
  /\ translatedSentiment = null
  /\ emojiSuggestion = null
  /\ nuanceExplanation = null
  /\ uiTranslations = null
  /\ sourceStyle = null
  /\ translatedStyle = null
  /\ isLoading = FALSE
  /\ isSourceAnalyzing = FALSE
  /\ isTranslatedAnalyzing = FALSE
  /\ error = null
  /\ runs = <<>>
  /\ pending = {}
  /\ calls = [source |-> 0, translated |-> 0]
  /\ timers = {}
  /\ now = 0

\* getSentiment(argText) up to its return on a blank text (lines 27-29) or to
\* its await of the provider (lines 30-33).
getSentiment ==
  /\ resolved = null
  /\ prompts = <<>>
  /\ IF Trim(argText) = <<>>
       THEN /\ resolved' = Some(Some([score |-> 0, intimacy |-> undefined,
                                     formality |-> undefined]))
            /\ UNCHANGED prompts
       ELSE /\ prompts' = <<argText>>
            /\ UNCHANGED resolved
  /\ UNCHANGED <<argText, matcher, app>>

\* getSentiment from the provider's answer, or failure, to its return
\* (lines 42-47).
getSentimentReturns(a) ==
  /\ resolved = null
  /\ prompts # <<>>
  /\ a \in SentimentAnswers
  /\ resolved' = Some(getSentimentResult(prompts[1], a))
  /\ UNCHANGED <<argText, prompts, matcher, app>>

NextSentiment ==
  \/ getSentiment
  \/ \E a \in SentimentAnswers : getSentimentReturns(a)

SpecSentiment == InitSentiment /\ [][NextSentiment]_vars

-----------------------------------------------------------------------------
(* Properties of the second component, checked under Spec.                 *)

\* The inverse of the provider's translation of a character.
Lower(c) == CASE c = "A" -> "a" [] c = "B" -> "b" [] OTHER -> c

\* The source text whose translation the displayed translation is: the
\* provider's translation up to the first appended glyph, letter by letter.
RECURSIVE RequestOf(_)
RequestOf(translated) ==
  IF translated = <<>> \/ Head(translated) = " " THEN <<>>
  ELSE <<Lower(Head(translated))>> \o RequestOf(Tail(translated))

\* C1: in every reachable state a non-empty displayed translation was
\* produced by a request whose text is the currently displayed source text.
C1_TranslationMatchesSourceText ==
  Truthy(translatedText) => RequestOf(translatedText) = sourceText

\* C2: a source edit made while a translation is present (a non-empty text
\* is displayed as the translation) clears the translation, both sentiments,
\* the suggestion and the nuance note in that one step.
C2_EditClearsAllTogether ==
  [][(sourceText' # sourceText /\ Truthy(translatedText))
       => /\ translatedText' = <<>>
          /\ sourceSentiment' = null
          /\ translatedSentiment' = null
          /\ emojiSuggestion' = null
          /\ nuanceExplanation' = null]_vars

\* C2 witness: no run is active, no error and no translation is shown, and
\* the re-analysis of an appended glyph is still in flight: the translation
\* it belongs to was cleared by an edit, with every other derived field.
C2_Witness ==
  /\ pending # {}
  /\ ~isLoading
  /\ error = null
  /\ sourceText # InitialSourceText
  /\ translatedText = <<>>
  /\ sourceSentiment = null
  /\ translatedSentiment = null
  /\ emojiSuggestion = null
  /\ nuanceExplanation = null

\* No result is displayed: the state an invalidating edit leaves.
Invalidated ==
  /\ translatedText = <<>>
  /\ sourceSentiment = null
  /\ translatedSentiment = null
  /\ emojiSuggestion = null
  /\ nuanceExplanation = null

\* C3: once an edit has invalidated the results, no derived field takes a
\* value again until a new translate() is started: while no translation
\* request is outstanding, an invalidated state stays invalidated.
C3_NoStaleResultAfterEdit ==
  [][(Invalidated /\ \A i \in 1..Len(runs) : runs[i].pc # "getTranslationAndSentiment")
       => Invalidated']_vars

\* C5: a sentiment response that arrives after a newer request was
\* dispatched for the same field is discarded: it leaves the field's reading
\* as it was.
C5_StaleResponseDiscarded ==
  [][\A r \in pending \ pending' :
       (r.field = "translated" /\ r.id < calls.translated)
         => translatedSentiment' = translatedSentiment]_vars

\* C8: a run starts only when none is active and the source text is not
\* blank, so at most one run is active and at most one translation request
\* is outstanding.
C8_TranslateEntryGuard ==
  /\ [](Len(runs) <= 1)
  /\ [](isLoading <=> runs # <<>>)
  /\ [][Len(runs') > Len(runs)
          => ~isLoading /\ Trim(sourceText) # <<>> /\ runs = <<>>]_vars

\* C8 witness: a run is active and the source text has been blanked: both
\* reasons for translate() to do nothing hold.
C8_Witness ==
  /\ Len(runs) = 1
  /\ isLoading
  /\ runs[1].pc = "getTranslationAndSentiment"
  /\ Trim(sourceText) = <<>>

\* C9: the suggestion request is dispatched exactly when the translation
\* answer was applied successfully and the two valences differ by more than
\* 0.2 (at a difference of exactly 0.2 it is not), and never before the
\* translation answer has arrived.
C9_SuggestionIffDeltaAboveThreshold ==
  [][LET requested == /\ runs' # <<>>
                      /\ runs'[1].pc = "getEmojiSuggestions"
                      /\ (runs = <<>> \/ runs[1].pc # "getEmojiSuggestions")
         answered == /\ runs # <<>>
                     /\ runs[1].pc = "getTranslationAndSentiment"
                     /\ runs' # runs
         success == /\ error' = null
                    /\ sourceSentiment' # null
                    /\ translatedSentiment' # null
     IN  /\ requested => answered
         /\ answered =>
              (requested <=>
                 (success /\ Abs(sourceSentiment'[1].score
                                 - translatedSentiment'[1].score) > 200))]_vars

\* C9, amended: the suggestion request is dispatched exactly when the
\* translation answer was applied successfully and the difference of the
\* two valences as computed in doubles is more than 0.2: a difference above
\* 0.2, or one of exactly 0.2 whose computed value is 0.20000000000000004 or
\* 0.20000000000000007; and never before the translation answer has arrived.
C9_SuggestionIffComputedDeltaAboveThreshold ==
  [][LET requested == /\ runs' # <<>>
                      /\ runs'[1].pc = "getEmojiSuggestions"
                      /\ (runs = <<>> \/ runs[1].pc # "getEmojiSuggestions")
         answered == /\ runs # <<>>
                     /\ runs[1].pc = "getTranslationAndSentiment"
                     /\ runs' # runs
         success == /\ error' = null
                    /\ sourceSentiment' # null
                    /\ translatedSentiment' # null
         source == sourceSentiment'[1].score
         translated == translatedSentiment'[1].score
     IN  /\ requested => answered
         /\ answered =>
              (requested <=>
                 /\ success
                 /\ \/ Abs(source - translated) > 200
                    \/ /\ Abs(source - translated) = 200
                       /\ (IF source < translated THEN source ELSE translated)
                            \in RoundsAboveThreshold)]_vars

\* C9 witness: the suggestion request of a run is outstanding and the two
\* valences displayed are exactly 0.2 apart, with a computed difference of
\* 0.20000000000000004 (0.141 and 0.341).
C9_Witness ==
  /\ isLoading
  /\ runs # <<>>
  /\ runs[1].pc = "getEmojiSuggestions"
  /\ sourceSentiment # null
  /\ translatedSentiment # null
  /\ sourceSentiment[1].score = 141
  /\ translatedSentiment[1].score = 341

\* C10: when the suggestion request fails, the run ends with the translation
\* and both sentiments unchanged, no suggestion, and no failure notice.
C10_SuggestionFailureAbsorbed ==
  [][(/\ runs # <<>>
      /\ runs[1].pc = "getEmojiSuggestions"
      /\ runs' = <<>>
      /\ emojiSuggestion' = null)
       => /\ ~isLoading'
          /\ translatedText' = translatedText
          /\ sourceSentiment' = sourceSentiment
          /\ translatedSentiment' = translatedSentiment
          /\ error' = null]_vars

-----------------------------------------------------------------------------
(* Properties of the first component, checked under SpecV1.                *)

\* The debounce timer of some pending analysis expires in this step.
TimerExpires ==
  /\ \E t \in timers : t \notin timers' /\ now = t.setAt + DebounceDelay
  /\ sourceText' = sourceText
  /\ isLoading' = isLoading

\* C4: every onTextChanged call schedules an analysis of the new text 500 ms
\* later, cancelling the one scheduled before, and when the 500 ms have passed
\* exactly one sentiment request is dispatched, carrying the final text.
C4_BurstDispatchesOneRequest ==
  [][/\ sourceText' # sourceText
          => timers' = {[text |-> sourceText', setAt |-> now]}
     /\ TimerExpires
          => /\ calls'.source = calls.source + 1
             /\ \E r \in pending' \ pending : r.text = sourceText]_vars

\* C4 as amended: outside a translate() run, every onTextChanged call cancels
\* the scheduled analysis and schedules one of the new text 500 ms later (a
\* call during a run schedules none); a realtime request is dispatched only
\* by the expiry of that timer, 500 ms after it was set, one at a time and
\* for the current text; and the analysis of a blank text dispatches nothing
\* and clears the reading.
C4_Debounce ==
  /\ [](\A t \in timers : timers = {t} /\ t.text = sourceText /\ ~isLoading)
  /\ [][/\ sourceText' # sourceText
             => timers' = IF isLoading THEN {}
                          ELSE {[text |-> sourceText', setAt |-> now]}
        /\ calls'.source # calls.source
             => /\ TimerExpires
                /\ calls'.source = calls.source + 1
                /\ timers' = {}
                /\ \E r \in pending' \ pending :
                     /\ r.text = sourceText
                     /\ [text |-> r.text, setAt |-> now - DebounceDelay] \in timers
        /\ TimerExpires
             => IF Trim(sourceText) = <<>>
                  THEN calls' = calls /\ pending' = pending /\ sourceSentiment' = null
                  ELSE calls'.source = calls.source + 1]_vars

\* C4 witness: after a burst of edits ending 250 ms into the session with
\* the text "b", the one request dispatched so far went out at 750 ms and
\* carries "b".
C4_Witness ==
  /\ now = 750
  /\ calls.source = 1
  /\ sourceText = <<"b">>
  /\ timers = {}
  /\ \E r \in pending : r.field = "source" /\ r.id = 1 /\ r.text = <<"b">>

\* C6: for each text field at most one realtime sentiment request is in
\* flight at any time.
C6_OneRequestInFlightPerField ==
  \A f \in {"source", "translated"} :
    Cardinality({r \in pending : r.field = f}) <= 1

\* C7: while a translate() run is active no debounce timer is pending (the
\* one pending at its start is cancelled and an edit starts none) and no
\* realtime sentiment request is dispatched.
C7_RealtimeSuspendedDuringRun ==
  /\ [](isLoading => timers = {})
  /\ [][isLoading => calls' = calls /\ pending' \subseteq pending]_vars

\* C7 witness: a run is active, the source text was edited after it started,
\* and no timer is pending.
C7_Witness ==
  /\ isLoading
  /\ runs # <<>>
  /\ runs[1].text # sourceText
  /\ timers = {}

-----------------------------------------------------------------------------
(* Further properties of the second component, checked under Spec.         *)

\* C11: when the translation request fails, the run ends with the one fixed
\* failure message, no translation, no translated-side sentiment, no
\* suggestion and no nuance note displayed, the loading flag cleared and no
\* request outstanding (nothing is retried).
C11_TranslationFailureEndsFailed ==
  [][\A i \in 1..Len(runs) : \A a \in TranslationAnswers(runs[i].text) :
       (a.kind = "fail" /\ TranslationResponse(i, a))
         => /\ error' = Some(ErrorMessage)
            /\ ~isLoading'
            /\ runs' = <<>>
            /\ translatedText' = <<>>
            /\ translatedSentiment' = null
            /\ emojiSuggestion' = null
            /\ nuanceExplanation' = null]_vars

\* C12: an answer to the translation request that lacks a required field
\* (the translation, the source sentiment or the translated sentiment) fails
\* the whole run: the failure message is set and none of the fields the
\* answer does hold is applied to the display.
C12_IncompleteAnswerAppliesNothing ==
  [][\A i \in 1..Len(runs) : \A a \in TranslationAnswers(runs[i].text) :
       (a.kind \in {"noTranslation", "noSource", "noTranslated"}
        /\ TranslationResponse(i, a))
         => /\ error' = Some(ErrorMessage)
            /\ UNCHANGED <<sourceSentiment, translatedText, translatedSentiment,
                           emojiSuggestion, nuanceExplanation>>]_vars

\* C13: in every state, a translation that is displayed (non-empty) has both
\* the source sentiment and the translated-side sentiment displayed with it.
C13_TranslationComesWithBothSentiments ==
  Truthy(translatedText) => (sourceSentiment # null /\ translatedSentiment # null)

\* C14: when the provider fails a re-analysis request, the translated-side
\* sentiment becomes the zero fallback (score 0, intimacy 50, formality 50,
\* the glyph of score 0) and the error notice is left as it was.
C14_SentimentFailureGivesZeroFallback ==
  [][\A r \in pending :
       TranslatedSentimentResponse(r, "fail")
         => /\ translatedSentiment' =
                 Some([score |-> 0, intimacy |-> Some(50), formality |-> Some(50),
                       emoji |-> getEmojiForScore(0)])
            /\ error' = error]_vars

\* The glyphs a suggestion offers.
SuggestedGlyphs == {"x", "y"}

\* C15: appendSuggestedGlyph changes only the translation, which becomes the
\* previous translation followed directly by the glyph; the source text, the
\* source sentiment, the suggestion, the nuance note and the error notice
\* are left as they were.
C15_AppendChangesOnlyTranslation ==
  [][\A e \in SuggestedGlyphs :
       handleEmojiAdd(e)
         => /\ translatedText' = translatedText \o <<e>>
            /\ UNCHANGED <<sourceText, sourceSentiment, emojiSuggestion,
                           nuanceExplanation, error>>]_vars

\* C15, amended: the translation becomes the previous translation without
\* its surrounding whitespace, one space and the glyph (the glyph alone when
\* the previous translation was blank), and is left as it was when the
\* run's answer held no translation text; the source text, both sentiments,
\* the suggestion, the nuance note and the error notice are left as they
\* were by the call.
C15_AppendJoinsWithSpace ==
  [][\A e \in SuggestedGlyphs :
       handleEmojiAdd(e)
         => /\ translatedText' =
                 IF translatedText = undefinedText THEN translatedText
                 ELSE IF Trim(translatedText) = <<>> THEN <<e>>
                 ELSE Trim(translatedText) \o <<" ", e>>
            /\ UNCHANGED <<sourceText, sourceSentiment, translatedSentiment,
                           emojiSuggestion, nuanceExplanation, error>>]_vars

\* A glyph was appended to the translation "B ", which ended in a space, and
\* the re-analysis of the new text is outstanding.
C15_Witness ==
  /\ translatedText = <<"B", " ", "x">>
  /\ \E r \in pending : r.field = "translated" /\ r.text = translatedText

\* A translation to which a suggested glyph was appended.
HasGlyph(text) == \E k \in 1..Len(text) : text[k] \in SuggestedGlyphs

\* What the re-analysis of a text may display: what getSentiment resolves to
\* on that text with its glyph, or the fallback reading when it resolves to
\* null.
ReanalysisReadings(text) ==
  { IF getSentimentResult(text, a) = null
      THEN Some([score |-> 0, intimacy |-> Some(50), formality |-> Some(50),
                 emoji |-> getEmojiForScore(0)])
      ELSE Some(WithEmoji(getSentimentResult(text, a)[1])) : a \in SentimentAnswers }

\* C16: once no request is outstanding, the translated-side sentiment
\* displayed with a translation that carries an appended glyph is the
\* re-analysis reading of that displayed translation, whatever the number of
\* appends and the order of the answers.
C16_SettledSentimentIsOfDisplayedText ==
  (pending = {} /\ runs = <<>> /\ HasGlyph(translatedText))
    => translatedSentiment \in ReanalysisReadings(translatedText)

\* C17: in every state, each sentiment that is displayed, on either side and
\* whether it came from a translation run, from a re-analysis or from the
\* failure fallback, carries the glyph getEmojiForScore gives its score.
C17_GlyphMatchesScore ==
  \A s \in {sourceSentiment, translatedSentiment} :
    s # null => s[1].emoji = getEmojiForScore(s[1].score)

\* Both sentiments are displayed with different glyphs: the source side set
\* by a translation run, the translated side by the failure fallback.
C17_Witness ==
  /\ sourceSentiment # null
  /\ translatedSentiment # null
  /\ translatedSentiment[1].score = 0
  /\ translatedSentiment[1].intimacy = undefined
  /\ sourceSentiment[1].emoji # translatedSentiment[1].emoji

-----------------------------------------------------------------------------
(* Properties of getEmojiForScore, checked under SpecEmoji.                *)

\* The positions of the table, and the positions whose score is nearest to
\* a score.
Entries == 1..Len(EMOJI_SENTIMENT_LIST)
Nearest(s) ==
  { k \in Entries : \A j \in Entries :
      Abs(EMOJI_SENTIMENT_LIST[k].score - s) <= Abs(EMOJI_SENTIMENT_LIST[j].score - s) }

\* C18: for every score of [-1, 1] the glyph returned is that of a table
\* entry whose score is at least as near to the score as every entry's.
C18_ReturnsNearestEntry ==
  closest # null
    => \E k \in Nearest(argScore) : closest[1] = EMOJI_SENTIMENT_LIST[k].emoji

\* The call on -0.5, which lies between -0.583 and -0.422, has returned the
\* glyph of -0.422.
C18_Witness == argScore = -500 /\ closest = Some("U+1F615")

\* C19: when two entries are equally near to the score, the glyph returned is
\* that of the one that comes first in the table.
C19_TieKeepsEarlier ==
  closest # null
    => \A i, j \in Nearest(argScore) :
         i < j => closest[1] = EMOJI_SENTIMENT_LIST[i].emoji

\* C19, amended: when the two distances as computed are equal, the glyph
\* returned is that of the entry that comes first; when they are equal in
\* thousandths and differ as computed, it is that of the entry whose
\* computed distance is the smaller.
C19_ComputedTieKeepsEarlier ==
  closest # null
    => \A i, j \in Nearest(argScore) :
         i < j => closest[1] =
                    IF Less(Distance(EMOJI_SENTIMENT_LIST[j].score, argScore),
                            Distance(EMOJI_SENTIMENT_LIST[i].score, argScore))
                      THEN EMOJI_SENTIMENT_LIST[j].emoji
                      ELSE EMOJI_SENTIMENT_LIST[i].emoji

\* The call on -0.766, whose computed distances from -0.803 and from -0.729
\* are equal, has returned the glyph of -0.803.
C19_Witness == argScore = -766 /\ closest = Some("U+1F62D")

-----------------------------------------------------------------------------
(* Properties of getSentiment, checked under SpecSentiment.                *)

\* C20: the call on an empty or whitespace-only text resolves to the neutral
\* reading (score 0, intimacy 50, formality 50) and sends the provider
\* nothing.
C20_BlankTextGivesNeutralReading ==
  (resolved # null /\ Trim(argText) = <<>>)
    => /\ resolved = Some(Some([score |-> 0, intimacy |-> Some(50),
                                 formality |-> Some(50)]))
       /\ prompts = <<>>

-----------------------------------------------------------------------------
(* Runs of the second component as a whole, checked under Spec.            *)

\* C21: a step that starts a run leaves the error notice, the translation,
\* both sentiments, the suggestion and the nuance note cleared; and a
\* suggestion or nuance note displayed when a run ends is the one the
\* provider gave that run: a run whose scores differ by at most 0.2, or
\* whose suggestion request fails, ends with no suggestion.
C21_RunStartsClearedAndEndsWithItsOwn ==
  [][/\ Len(runs') > Len(runs)
          => /\ error' = null
             /\ translatedText' = <<>>
             /\ sourceSentiment' = null
             /\ translatedSentiment' = null
             /\ emojiSuggestion' = null
             /\ nuanceExplanation' = null
     /\ (runs # <<>> /\ runs' = <<>>)
          => /\ emojiSuggestion' \in {null, Some(SuggestionAnswer(runs[1].text))}
             /\ nuanceExplanation' \in {null, NuanceOf(runs[1].text)}
     /\ \A i \in 1..Len(runs) : \A a \in TranslationAnswers(runs[i].text) :
          (/\ a.kind = "ok"
           /\ Abs(a.sourceScore - a.translatedScore) <= 200
           /\ TranslationResponse(i, a))
            => runs' = <<>> /\ emojiSuggestion' = null
     /\ \A i \in 1..Len(runs) :
          SuggestionResponse(i, FALSE) => emojiSuggestion' = null]_vars

\* C21, amended: as C21, for a run whose difference of valences as computed
\* in doubles is at most 0.2: that run ends with the translation answer,
\* with no suggestion.
C21_EndsWithItsOwnAsComputed ==
  [][/\ Len(runs') > Len(runs)
          => /\ error' = null
             /\ translatedText' = <<>>
             /\ sourceSentiment' = null
             /\ translatedSentiment' = null
             /\ emojiSuggestion' = null
             /\ nuanceExplanation' = null
     /\ (runs # <<>> /\ runs' = <<>>)
          => /\ emojiSuggestion' \in {null, Some(SuggestionAnswer(runs[1].text))}
             /\ nuanceExplanation' \in {null, NuanceOf(runs[1].text)}
     /\ \A i \in 1..Len(runs) : \A a \in TranslationAnswers(runs[i].text) :
          (/\ a.kind = "ok"
           /\ ~NeedsSuggestion(a.sourceScore, a.translatedScore)
           /\ TranslationResponse(i, a))
            => runs' = <<>> /\ emojiSuggestion' = null
     /\ \A i \in 1..Len(runs) :
          SuggestionResponse(i, FALSE) => emojiSuggestion' = null]_vars

\* A glyph of an earlier run's suggestion was appended, and a later run has
\* ended without error, its translation displayed with no suggestion.
C21_Witness ==
  /\ calls.translated > 0
  /\ runs = <<>>
  /\ error = null
  /\ Truthy(translatedText)
  /\ ~HasGlyph(translatedText)
  /\ emojiSuggestion = null

\* C22: when the provider answers or fails every request, every run ends:
\* the loading flag, once set, is cleared again, whichever way the
\* translation request and the suggestion request turn out.
C22_EveryRunEnds == isLoading ~> (~isLoading /\ runs = <<>>)

\* A run has ended by the failure of its suggestion request: the loading
\* flag is cleared, the translation and its sentiment stay displayed under
\* the error notice.
C22_Witness ==
  /\ ~isLoading
  /\ runs = <<>>
  /\ error # null
  /\ Truthy(translatedText)
  /\ translatedSentiment # null

\* C23: the analyzing flag of the translated field is set in exactly the
\* states in which a sentiment request for that field is outstanding, also
\* when several such requests overlap.
C23_AnalyzingFlagTracksRequests ==
  isTranslatedAnalyzing = (\E r \in pending : r.field = "translated")

====
